---- MODULE Spec2Model ----
(***************************************************************************)
(* A model of the image microservice of app/main.py: one SQL table of      *)
(* Image rows (id, album, starred, filepath), one directory of files, and  *)
(* the five request handlers create_image, delete_image, get_album,        *)
(* get_starred and set_starred.                                            *)
(*                                                                         *)
(* Strings the handlers take apart (the content type, the file path) are   *)
(* sequences of one-character strings, so that startswith and split are    *)
(* computed as Python computes them.                                       *)
(*                                                                         *)
(* Spec      : requests are handled one at a time, each handler as a whole.*)
(* RaceSpec  : two set_starred requests, each with a database session of   *)
(*             its own, run statement by statement and interleave.         *)
(***************************************************************************)
EXTENDS Integers, Sequences, FiniteSets, TLC

VARIABLES
    rows,   \* the Image table: a set of records [id, album, starred, filepath]
    files,  \* the images directory: a function from file path to file contents
    last,   \* the last request handled and the response it got
    hist,   \* per album: was its latest upload the first into an empty album,
            \* with no delete in that album since (history, for the upload rule)
    sess    \* per in-flight set_starred request: its position and its Session

vars == <<rows, files, last, hist, sess>>

----------------------------------------------------------------------------
(* Bounds and input sets *)

\* ids the table may hand out: an upload that would get a larger id is not made
MaxId == 3

Albums == {1, 2}

\* what secrets.token_hex(8) may return (16 hex characters in the program)
Tokens == {<<"a">>, <<"b">>}

\* the bytes of an uploaded file
Payloads == {"A", "B"}

\* UploadFile.content_type is None
NoContentType == <<"None">>

ImageJpeg == <<"i", "m", "a", "g", "e", "/", "j", "p", "e", "g">>
TextPlain == <<"t", "e", "x", "t", "/", "p", "l", "a", "i", "n">>
ImageBare == <<"i", "m", "a", "g", "e">>

ContentTypes == {ImageJpeg, TextPlain, ImageBare, NoContentType}

\* what open(filepath, "wb+") may do: give the file, or raise OSError (no
\* such directory, no permission, no space) and leave the directory as it is
WriteOutcomes == {"ok", "open_fails"}

\* the two concurrent set_starred requests of RaceSpec
Requests == {1, 2}

----------------------------------------------------------------------------
(* Program constants *)

IMAGES_DIR == <<".", "/", "i", "m", "a", "g", "e", "s">>

PageLimit == 10

----------------------------------------------------------------------------
(* Python string operations *)

\* s.startswith(p)
StartsWith(s, p) == Len(s) >= Len(p) /\ SubSeq(s, 1, Len(p)) = p

\* the index of the first c in s at or after i, or 0
RECURSIVE IndexFrom(_, _, _)
IndexFrom(s, c, i) ==
    IF i > Len(s) THEN 0
    ELSE IF s[i] = c THEN i
    ELSE IndexFrom(s, c, i + 1)

\* s.split(c): the list of the parts of s between the occurrences of c
RECURSIVE Split(_, _)
Split(s, c) ==
    LET i == IndexFrom(s, c, 1)
    IN  IF i = 0 THEN <<s>>
        ELSE <<SubSeq(s, 1, i - 1)>> \o Split(SubSeq(s, i + 1, Len(s)), c)

----------------------------------------------------------------------------
(* The table *)

\* session.get / first() finding nothing
NoRow == [id |-> 0, album |-> 0, starred |-> FALSE, filepath |-> <<>>]

Ids(rs) == {r.id : r \in rs}

MaxOf(S) == CHOOSE m \in S : \A x \in S : x <= m

MinOf(S) == CHOOSE m \in S : \A x \in S : m <= x

\* the id an INTEGER PRIMARY KEY column gives a new row: one more than the
\* largest in the table
NextId(rs) == IF rs = {} THEN 1 ELSE MaxOf(Ids(rs)) + 1

\* session.get(Image, image_id)
GetImage(rs, image_id) ==
    IF image_id \in Ids(rs)
    THEN CHOOSE r \in rs : r.id = image_id
    ELSE NoRow

\* the first row of a result set, in the table's scan order
First(rs) == IF rs = {} THEN NoRow ELSE GetImage(rs, MinOf(Ids(rs)))

\* select(Image).filter_by(album=album_id, starred=True)
StarredOf(rs, album_id) == {r \in rs : r.album = album_id /\ r.starred}

AlbumRows(rs, album_id) == {r \in rs : r.album = album_id}

\* the ImagePublic response model: no filepath
ImagePublic(r) == [id |-> r.id, album |-> r.album, starred |-> r.starred]

RECURSIVE InScanOrder(_)
InScanOrder(rs) ==
    IF rs = {} THEN <<>>
    ELSE LET r == First(rs) IN <<r>> \o InScanOrder(rs \ {r})

----------------------------------------------------------------------------
(* create_image *)

\* what the body of the try statement raises: None has no startswith, and a
\* content type that does not start with "image" raises HTTPException(406)
TryMediaType(content_type) ==
    IF content_type = NoContentType THEN "AttributeError"
    ELSE IF ~StartsWith(content_type, ImageBare) THEN "HTTPException406"
    ELSE "ok"

\* the status the validation block answers with, 200 when it lets the upload
\* through: "except Exception" catches the AttributeError and also the
\* HTTPException(406) raised inside the try, and raises HTTPException(400)
ValidationStatus(content_type) ==
    IF TryMediaType(content_type) = "ok" THEN 200 ELSE 400

\* Variants of the starred rule, each a slip the query could have had.
\* every upload is starred
StarFlagAlways(rs, album_id) == TRUE

\* no upload is starred (the column's default)
StarFlagNever(rs, album_id) == FALSE

\* the filter on the album and on starred
StarFlagOfStarred(rs, album_id) == First(StarredOf(rs, album_id)) = NoRow

\* star: the statement's where clause is the Python expression
\* (Image.album == album_id and Image.starred is True); the left operand is a
\* SQL expression whose truth value is False, so "and" returns it and the
\* query selects the rows of the album, starred or not
StarFlag(rs, album_id) == First(AlbumRows(rs, album_id)) = NoRow

FilePath(token, file_ext) == IMAGES_DIR \o <<"/">> \o token \o <<".">> \o file_ext

\* with open(filepath, "wb+") as f_obj: f_obj.write(img_upload.file.read())
\* "wb+" creates the file or replaces the contents of the one that is there
WriteFile(fs, filepath, data, io) ==
    IF io = "open_fails" THEN fs
    ELSE [p \in (DOMAIN fs) \cup {filepath} |->
            IF p = filepath THEN data ELSE fs[p]]

Failure(rs, fs, code) == [rows |-> rs, files |-> fs, status |-> code, body |-> <<>>]

\* Variant: the row is committed before the file is written.
create_image_row_first(rs, fs, album_id, img_upload, token, io) ==
    IF ValidationStatus(img_upload.content_type) # 200
    THEN Failure(rs, fs, ValidationStatus(img_upload.content_type))
    ELSE IF Len(Split(img_upload.content_type, "/")) < 2
    THEN Failure(rs, fs, 500)
    ELSE
        LET file_ext  == Split(img_upload.content_type, "/")[2]
            filepath  == FilePath(token, file_ext)
            star      == StarFlag(rs, album_id)
            new_image == [id |-> NextId(rs), album |-> album_id,
                          starred |-> star, filepath |-> filepath]
            written   == WriteFile(fs, filepath, img_upload.file, io)
        IN  [rows |-> rs \cup {new_image}, files |-> written,
             status |-> IF io = "ok" THEN 200 ELSE 500,
             body |-> IF io = "ok" THEN ImagePublic(new_image) ELSE <<>>]

\* The handler: the table and the directory it leaves, and its response.
create_image(rs, fs, album_id, img_upload, token, io) ==
    IF ValidationStatus(img_upload.content_type) # 200
    THEN Failure(rs, fs, ValidationStatus(img_upload.content_type))
    ELSE IF Len(Split(img_upload.content_type, "/")) < 2
    THEN Failure(rs, fs, 500)                  \* IndexError, not handled
    ELSE
        LET file_ext  == Split(img_upload.content_type, "/")[2]
            filepath  == FilePath(token, file_ext)
            star      == StarFlag(rs, album_id)
            new_image == [id |-> NextId(rs), album |-> album_id,
                          starred |-> star, filepath |-> filepath]
            written   == WriteFile(fs, filepath, img_upload.file, io)
        IN  IF io # "ok"
            THEN Failure(rs, written, 500)     \* OSError, not handled
            ELSE [rows |-> rs \cup {new_image}, files |-> written,
                  status |-> 200, body |-> ImagePublic(new_image)]

----------------------------------------------------------------------------
(* delete_image *)

\* Variant: the image's file is removed with its row.
delete_image_and_file(rs, fs, image_id) ==
    LET image == GetImage(rs, image_id)
    IN  IF image = NoRow
        THEN Failure(rs, fs, 404)
        ELSE [rows |-> rs \ {image},
              files |-> [p \in (DOMAIN fs) \ {image.filepath} |-> fs[p]],
              status |-> 200, body |-> [ok |-> TRUE]]

delete_image(rs, fs, image_id) ==
    LET image == GetImage(rs, image_id)
    IN  IF image = NoRow
        THEN Failure(rs, fs, 404)
        ELSE [rows |-> rs \ {image}, files |-> fs, status |-> 200,
              body |-> [ok |-> TRUE]]

----------------------------------------------------------------------------
(* get_album, get_starred *)

\* select(Image).offset(0).limit(10).where(Image.album == album_id)
get_album(rs, album_id) ==
    LET found == InScanOrder(AlbumRows(rs, album_id))
        n     == IF Len(found) < PageLimit THEN Len(found) ELSE PageLimit
    IN  [status |-> 200, body |-> [i \in 1..n |-> ImagePublic(found[i])]]

Last(seq) == seq[Len(seq)]

\* FileResponse(path): the file's bytes, or a server error when there is no
\* such file
get_starred(rs, fs, album_id) ==
    LET img_entry == First(StarredOf(rs, album_id))
    IN  IF img_entry = NoRow
        THEN [status |-> 404, body |-> <<>>]
        ELSE IF img_entry.filepath \notin DOMAIN fs
        THEN [status |-> 500, body |-> <<>>]
        ELSE [status |-> 200,
              body |-> [content |-> fs[img_entry.filepath],
                        media_type |-> ImageBare \o <<"/">>
                                       \o Last(Split(img_entry.filepath, "."))]]

----------------------------------------------------------------------------
(* set_starred *)

\* the row with this id gets starred = value (an UPDATE ... WHERE id = ...)
UpdateStarred(rs, image_id, value) ==
    {IF r.id = image_id THEN [r EXCEPT !.starred = value] ELSE r : r \in rs}

\* image absent, or of another album
TargetMissing(rs, album_id, image_id) ==
    \/ GetImage(rs, image_id) = NoRow
    \/ GetImage(rs, image_id).album # album_id

\* Variant: the previous image keeps its flag.
UnsetNothing(rs, prev_id) == rs

\* prev_starred.sqlmodel_update({"starred": False}); add; commit; refresh
UnsetPrevious(rs, prev_id) == UpdateStarred(rs, prev_id, FALSE)

\* image.sqlmodel_update({"starred": True}); add; commit; refresh
StarImage(rs, image_id) == UpdateStarred(rs, image_id, TRUE)

\* Variant: the target is starred and the previous image is left as it is.
set_starred_only_sets(rs, album_id, image_id) ==
    IF TargetMissing(rs, album_id, image_id)
    THEN [rows |-> rs, status |-> 404]
    ELSE IF First(StarredOf(rs, album_id)) = NoRow
    THEN [rows |-> rs, status |-> 500]
    ELSE [rows |-> StarImage(rs, image_id), status |-> 200]

\* The handler run as a whole. results.first() is None when the album has no
\* starred image, and None has no sqlmodel_update: the AttributeError is not
\* handled and nothing has been written.
set_starred(rs, album_id, image_id) ==
    IF TargetMissing(rs, album_id, image_id)
    THEN [rows |-> rs, status |-> 404]
    ELSE
        LET prev_starred == First(StarredOf(rs, album_id))
        IN  IF prev_starred = NoRow
            THEN [rows |-> rs, status |-> 500]
            ELSE [rows |-> StarImage(UnsetPrevious(rs, prev_starred.id), image_id),
                  status |-> 200]

----------------------------------------------------------------------------
(* The requests, handled one at a time *)

Response(op, album_id, image_id, content_type, status, body) ==
    [op |-> op, album |-> album_id, image_id |-> image_id,
     content_type |-> content_type, status |-> status, body |-> body]

\* the handler draws its file name and opens the file only when the upload
\* has passed the validation and has a subtype, and reads the upload's bytes
\* only when the file is open
ReachesDisk(content_type) ==
    /\ ValidationStatus(content_type) = 200
    /\ Len(Split(content_type, "/")) >= 2

\* an input the handler does not get to is not drawn
DrawnFrom(S, reached) == IF reached THEN S ELSE {CHOOSE x \in S : TRUE}

\* Each request action binds res to the handler's result, so that the
\* handler is run once for the step.
CreateImage ==
    \E album_id \in Albums, content_type \in ContentTypes :
    \E token \in DrawnFrom(Tokens, ReachesDisk(content_type)),
       io \in DrawnFrom(WriteOutcomes, ReachesDisk(content_type)) :
    \E data \in DrawnFrom(Payloads, ReachesDisk(content_type) /\ io = "ok") :
    \E img_upload \in {[content_type |-> content_type, file |-> data]} :
        \E res \in {create_image(rows, files, album_id, img_upload, token, io)} :
            /\ res.status = 200 => NextId(rows) <= MaxId
            /\ rows' = res.rows
            /\ files' = res.files
            /\ last' = Response("create_image", album_id,
                                IF res.status = 200 THEN res.body.id ELSE 0,
                                img_upload.content_type, res.status, res.body)
            /\ hist' = IF res.status # 200 THEN hist
                       ELSE [hist EXCEPT ![album_id] =
                               IF AlbumRows(rows, album_id) = {}
                               THEN "first" ELSE "none"]
            /\ UNCHANGED sess

DeleteImage ==
    \E image_id \in 1..MaxId :
        \E res \in {delete_image(rows, files, image_id)} :
            /\ rows' = res.rows
            /\ files' = res.files
            /\ last' = Response("delete_image", GetImage(rows, image_id).album,
                                image_id, NoContentType, res.status, <<>>)
            /\ hist' = IF res.status # 200 THEN hist
                       ELSE [hist EXCEPT ![GetImage(rows, image_id).album] = "none"]
            /\ UNCHANGED sess

GetAlbum ==
    \E album_id \in Albums :
        \E res \in {get_album(rows, album_id)} :
            /\ last' = Response("get_album", album_id, 0, NoContentType,
                                res.status, res.body)
            /\ UNCHANGED <<rows, files, hist, sess>>

GetStarred ==
    \E album_id \in Albums :
        \E res \in {get_starred(rows, files, album_id)} :
            /\ last' = Response("get_starred", album_id, 0, NoContentType,
                                res.status, res.body)
            /\ UNCHANGED <<rows, files, hist, sess>>

SetStarred ==
    \E album_id \in Albums, image_id \in 1..MaxId :
        \E res \in {set_starred(rows, album_id, image_id)} :
            /\ rows' = res.rows
            /\ last' = Response("set_starred", album_id, image_id,
                                NoContentType, res.status, <<>>)
            /\ UNCHANGED <<files, hist, sess>>

----------------------------------------------------------------------------
Init ==
    /\ rows = {}
    /\ files = <<>>
    /\ last = [op |-> "none", album |-> 0, image_id |-> 0,
               content_type |-> NoContentType, status |-> 0, body |-> <<>>]
    /\ hist = [a \in Albums |-> "none"]
    /\ sess = [q \in Requests |-> [pc |-> "idle", album |-> 0, image |-> 0,
                                   prev |-> 0, status |-> 0]]

Next ==
    \/ CreateImage
    \/ DeleteImage
    \/ GetAlbum
    \/ GetStarred
    \/ SetStarred

Spec == Init /\ [][Next]_vars

----------------------------------------------------------------------------
(* Two set_starred requests that overlap.  Each request has a Session of   *)
(* its own; a Session reads the table when a statement runs and writes it  *)
(* at commit.  The statements of the handler are its steps:                *)
(*   idle -> loaded : session.get(Image, image_id) and the 404 check       *)
(*   loaded -> found: the query for the album's starred image, first()     *)
(*   found -> unset : prev_starred is updated and committed                *)
(*   unset -> done  : image is updated and committed                       *)

Session(pc, album_id, image_id, prev_id, status) ==
    [pc |-> pc, album |-> album_id, image |-> image_id, prev |-> prev_id,
     status |-> status]

\* an upload that passes the validation and is written, as a whole
RaceCreate ==
    \E album_id \in Albums, token \in Tokens :
        LET img_upload == [content_type |-> ImageJpeg,
                           file |-> CHOOSE d \in Payloads : TRUE]
            res == create_image(rows, files, album_id, img_upload, token, "ok")
        IN  /\ NextId(rows) <= MaxId
            /\ rows' = res.rows
            /\ files' = res.files
            /\ UNCHANGED <<last, hist, sess>>

RaceLoadTarget(q) ==
    /\ sess[q].pc = "idle"
    /\ \E album_id \in Albums, image_id \in 1..MaxId :
        sess' = [sess EXCEPT ![q] =
                    IF TargetMissing(rows, album_id, image_id)
                    THEN Session("done", album_id, image_id, 0, 404)
                    ELSE Session("loaded", album_id, image_id, 0, 0)]
    /\ UNCHANGED <<rows, files, last, hist>>

RaceLoadStarred(q) ==
    /\ sess[q].pc = "loaded"
    /\ LET prev_starred == First(StarredOf(rows, sess[q].album))
       IN  sess' = [sess EXCEPT ![q] =
                    IF prev_starred = NoRow
                    THEN [@ EXCEPT !.pc = "done", !.status = 500]
                    ELSE [@ EXCEPT !.pc = "found", !.prev = prev_starred.id]]
    /\ UNCHANGED <<rows, files, last, hist>>

RaceCommitUnset(q) ==
    /\ sess[q].pc = "found"
    /\ rows' = UnsetPrevious(rows, sess[q].prev)
    /\ sess' = [sess EXCEPT ![q].pc = "unset"]
    /\ UNCHANGED <<files, last, hist>>

RaceCommitStar(q) ==
    /\ sess[q].pc = "unset"
    /\ rows' = StarImage(rows, sess[q].image)
    /\ sess' = [sess EXCEPT ![q].pc = "done", ![q].status = 200]
    /\ UNCHANGED <<files, last, hist>>

RaceNext ==
    \/ RaceCreate
    \/ \E q \in Requests : RaceLoadTarget(q)
    \/ \E q \in Requests : RaceLoadStarred(q)
    \/ \E q \in Requests : RaceCommitUnset(q)
    \/ \E q \in Requests : RaceCommitStar(q)

RaceSpec == Init /\ [][RaceNext]_vars

----------------------------------------------------------------------------
(* Properties *)

StarredCount(album_id) == Cardinality(StarredOf(rows, album_id))

\* the step just taken was a create_image request that succeeded (in an
\* action formula, used primed)
CreatedOk == last.op = "create_image" /\ last.status = 200

\* the album has rows and none of them is starred
Unstarred(rs, album_id) ==
    AlbumRows(rs, album_id) # {} /\ StarredOf(rs, album_id) = {}

\* C1: with requests handled one at a time, every album has at most one
\* starred image in every reachable state.
AtMostOneStarred == \A a \in Albums : StarredCount(a) <= 1

\* an album of several images, one of them starred by a set_starred request
AtMostOneStarredWitness ==
    /\ last.op = "set_starred" /\ last.status = 200
    /\ Cardinality(AlbumRows(rows, last.album)) >= 2
    /\ StarredCount(last.album) = 1

\* C2: after a set_starred request that succeeded, the target is starred, it
\* is the only starred image of its album, and get_starred answers with the
\* contents of the file at the target's filepath.
SetStarredStarsTarget ==
    (last.op = "set_starred" /\ last.status = 200) =>
        LET image == GetImage(rows, last.image_id)
            got   == get_starred(rows, files, last.album)
        IN  /\ image # NoRow
            /\ image.starred
            /\ StarredOf(rows, last.album) = {image}
            /\ got.status = 200
            /\ got.body.content = files[image.filepath]

\* the target was not the first image of its album, and the two files differ
SetStarredStarsTargetWitness ==
    /\ last.op = "set_starred" /\ last.status = 200
    /\ \E r \in AlbumRows(rows, last.album) :
        /\ r.id < last.image_id
        /\ r.filepath \in DOMAIN files
        /\ GetImage(rows, last.image_id).filepath \in DOMAIN files
        /\ files[r.filepath] # files[GetImage(rows, last.image_id).filepath]

\* C3: an upload to an album with no rows makes a starred row; the next
\* upload to that album, with no delete in the album in between, makes a row
\* that is not starred.
FirstUploadStarred ==
    [][CreatedOk' =>
        LET a   == last'.album
            new == GetImage(rows', last'.image_id)
        IN  /\ new \notin rows
            /\ AlbumRows(rows, a) = {} => (new.starred /\ last'.body.starred)
            /\ hist[a] = "first" => (~new.starred /\ ~last'.body.starred)]_vars

\* the second upload to an album: two rows, the first one starred
FirstUploadStarredWitness ==
    /\ CreatedOk
    /\ ~last.body.starred
    /\ Cardinality(AlbumRows(rows, last.album)) = 2
    /\ StarredCount(last.album) = 1
    /\ \E r \in StarredOf(rows, last.album) : r.id < last.image_id

\* C4: the row an upload makes is starred exactly when no row of the album
\* was starred before the upload.
StarredIffNoneStarred ==
    [][CreatedOk' =>
        (GetImage(rows', last'.image_id).starred
            <=> StarredOf(rows, last'.album) = {})]_vars

\* C5: set_starred for an image that exists and belongs to the album
\* succeeds and leaves the image starred, whether or not the album had a
\* starred image.
SetStarredSucceeds ==
    (last.op = "set_starred"
        /\ ~TargetMissing(rows, last.album, last.image_id)) =>
        (last.status = 200 /\ GetImage(rows, last.image_id).starred)

\* C6: an upload whose content type does not begin with "image" is answered
\* 406 and changes neither the table nor the directory.
NonImageIs406 ==
    [][(last'.op = "create_image"
            /\ last'.content_type # NoContentType
            /\ ~StartsWith(last'.content_type, ImageBare)) =>
        (last'.status = 406 /\ rows' = rows /\ files' = files)]_vars

\* C7: delete_image of an existing row succeeds and removes that row only:
\* the id is no longer found, get_album of its album no longer lists it, and
\* every other row and every file, the image's own included, is as before.
DeleteRemovesOnlyRow ==
    [][last'.op = "delete_image" =>
        LET id    == last'.image_id
            image == GetImage(rows, id)
        IN  /\ image # NoRow <=> last'.status = 200
            /\ image # NoRow =>
                /\ rows' = rows \ {image}
                /\ files' = files
                /\ GetImage(rows', id) = NoRow
                /\ LET page == get_album(rows', image.album).body
                   IN  \A i \in DOMAIN page : page[i].id # id]_vars

\* the starred image of an album was deleted: the other images are still not
\* starred, and a file no row names is still in the directory
DeleteRemovesOnlyRowWitness ==
    /\ last.op = "delete_image" /\ last.status = 200
    /\ Unstarred(rows, last.album)
    /\ \E p \in DOMAIN files : \A r \in rows : r.filepath # p

\* C9: every row's filepath names a file of the directory, and an upload
\* that fails adds no row.
RowsHaveFiles ==
    /\ [](\A r \in rows : r.filepath \in DOMAIN files)
    /\ [][(last'.op = "create_image" /\ last'.status # 200) =>
            rows' = rows]_vars

\* an upload whose write failed, with rows in the table and a file name
\* that no file has yet
RowsHaveFilesWitness ==
    /\ last.op = "create_image"
    /\ last.content_type = ImageJpeg
    /\ last.status = 500
    /\ rows # {}
    /\ \E t \in Tokens : FilePath(t, <<"j", "p", "e", "g">>) \notin DOMAIN files

RaceOver ==
    /\ \A q \in Requests : sess[q].pc = "done" /\ sess[q].status = 200
    /\ sess[1].album = sess[2].album

\* C8: two set_starred requests for one album whose statements interleave
\* can both finish and leave two starred images.  What such a race leaves:
\* one or two starred images, each of them a target of one of the requests.
RaceStarsTargets ==
    RaceOver =>
        /\ StarredCount(sess[1].album) \in {1, 2}
        /\ \A r \in StarredOf(rows, sess[1].album) :
            r.id \in {sess[1].image, sess[2].image}

\* both requests answered, and the album has two starred images
RaceStarsTargetsWitness ==
    /\ RaceOver
    /\ StarredCount(sess[1].album) = 2

====
